---- MODULE Spec2Model ----
(***************************************************************************)
(* Model of EuroNCAPWorkflow (src/workflow.py): the planner, retriever,    *)
(* aggregator and synthesizer steps of one run, the run store they share,  *)
(* and the metadata filters the retriever compiles from a RetrievalTask.   *)
(*                                                                         *)
(* A step is a coroutine: it runs without interruption from one await to   *)
(* the next, and at an await any other ready step instance may run.  Each  *)
(* action below is one such uninterrupted stretch of a step.               *)
(*                                                                         *)
(* The run store is used through `await ctx.store.get` and `await          *)
(* ctx.store.set` only.  Whether get hands out the stored list itself or a *)
(* copy of it is the store's business, so both are modelled (storeByRef).  *)
(* A StopEvent ends the run when it is delivered (RunEnd); step instances  *)
(* that are ready before that may still run.                               *)
(***************************************************************************)
EXTENDS Integers, Sequences, FiniteSets, TLC

\* ---------------------------------------------------------------------------
\* Bounds
\* ---------------------------------------------------------------------------

\* Largest Plan the planner collaborator returns for a multi-task run.
MaxTasks == 2

\* ---------------------------------------------------------------------------
\* Values
\* ---------------------------------------------------------------------------

\* An optional string field of a RetrievalTask: None, or a string.  A date is
\* kept as its sequence of characters, since the retriever edits it.
None == [isNone |-> TRUE, s |-> <<>>]

Some(v) == [isNone |-> FALSE, s |-> v]

\* Python truth value of an optional string: None and "" are false.
Truthy(x) == ~x.isNone /\ x.s # <<>>

Digits == <<"0", "1", "2", "3", "4", "5", "6", "7", "8", "9">>

IsDigit(c) == \E n \in 1..10 : Digits[n] = c

DigitVal(c) == (CHOOSE n \in 1..10 : Digits[n] = c) - 1

\* The decimal numeral of n, at least `width` characters, zero padded.
RECURSIVE Numeral(_, _)
Numeral(n, width) ==
    IF width <= 1 /\ n < 10
    THEN <<Digits[n + 1]>>
    ELSE Append(Numeral(n \div 10, width - 1), Digits[(n % 10) + 1])

\* A calendar date written YYYY-MM-DD.
IsoDate(y, m, d) ==
    Numeral(y, 4) \o <<"-">> \o Numeral(m, 2) \o <<"-">> \o Numeral(d, 2)

Years == {1999, 2023}

Months == {6, 12}

Days == {5, 15}

IsoDates == {IsoDate(y, m, d) : y \in Years, m \in Months, d \in Days}

\* What the planner collaborator may put in target_date: nothing, an empty
\* string, a full date, or a bare year.
TargetDates ==
    {None, Some(<<>>), Some(Numeral(2023, 4))} \cup {Some(s) : s \in IsoDates}

TargetVersions == {None, Some(<<>>), Some(<<"4.3.1">>), Some(<<"1.0">>)}

ProtocolTypes == {None, Some(<<"Test Protocol">>), Some(<<"Assessment Protocol">>)}

SystemDomains == {None, Some(<<"Car-to-Car">>), Some(<<"Vulnerable Road User">>)}

Modes == {"precision", "global"}

RetrievalTask ==
    [mode : Modes, target_date : TargetDates, target_version : TargetVersions,
     protocol_type : ProtocolTypes, system_domain : SystemDomains,
     rewritten_query : {"CCRs test speed"}]

\* Every task the planner collaborator may return.
AllTasks == RetrievalTask

\* The tasks that Plans of two or more tasks are made of: a precision task
\* with a date, and a global task whose date and version are filled in all
\* the same.
TaskKinds ==
    {[mode |-> "precision", target_date |-> Some(IsoDate(2023, 6, 15)),
      target_version |-> None, protocol_type |-> Some(<<"Test Protocol">>),
      system_domain |-> None, rewritten_query |-> "CCRs test speed"],
     [mode |-> "global", target_date |-> Some(IsoDate(1999, 12, 5)),
      target_version |-> Some(<<"4.3.1">>), protocol_type |-> None,
      system_domain |-> Some(<<"Car-to-Car">>),
      rewritten_query |-> "CCRs test speed"]}

SeqsOf(S, n) == UNION {[1..k -> S] : k \in 0..n}

\* The Plans prediction.plan.tasks ranges over.
Plans ==
    {<<>>} \cup {<<t>> : t \in AllTasks}
           \cup {p \in SeqsOf(TaskKinds, MaxTasks) : Len(p) >= 2}

Queries == {"List test scenario changes among v1.0, 3.0.2, and 4.3.1."}

\* What vector_retriever.aretrieve may return: nothing, or some nodes, each
\* named by the file_name of its metadata.
VectorOutcomes == {<<>>, <<"a.pdf", "b.pdf">>}

\* What reranker.postprocess_nodes may return for the nodes it is given: the
\* same nodes in some order (fewer than top_n of them are retrieved here).
RerankOutcomes(vector_nodes) ==
    {r \in [1..Len(vector_nodes) -> {vector_nodes[k] : k \in 1..Len(vector_nodes)}] :
        \A k \in 1..Len(vector_nodes) : \E j \in 1..Len(r) : r[j] = vector_nodes[k]}

Answers == {"cited answer"}

NoKnowledgeMsg == "Sorry, I do not have the knowledge to answer that question."

NotFoundMsg ==
    "Sorry, I could not find any relevant information in the provided protocols matching your criteria."

\* ---------------------------------------------------------------------------
\* Filter compilation (retriever, before the search)
\* ---------------------------------------------------------------------------

NotDash(c) == c # "-"

\* str.replace("-", "")
RemoveDashes(s) == SelectSeq(s, NotDash)

\* int(s) of a string of decimal digits.
RECURSIVE IntOf(_)
IntOf(s) ==
    IF s = <<>> THEN 0
    ELSE IntOf(SubSeq(s, 1, Len(s) - 1)) * 10 + DigitVal(s[Len(s)])

\* target_date_int
TargetDateInt(target_date) == IntOf(RemoveDashes(target_date))

MetadataFilter(key, value, operator) ==
    [key |-> key, value |-> value, operator |-> operator]

\* DateFilters with the two operators exchanged.
DateFiltersSwapped(target_date_int) ==
    <<MetadataFilter("start_date", target_date_int, "GTE"),
      MetadataFilter("end_date", target_date_int, "LTE")>>

\* The two filters the retriever adds for a date.
DateFilters(target_date_int) ==
    <<MetadataFilter("start_date", target_date_int, "LTE"),
      MetadataFilter("end_date", target_date_int, "GTE")>>

\* CompileFilters without the mode test of the version filter.
CompileFiltersVersionAnyMode(task) ==
    (IF task.mode = "precision" /\ Truthy(task.target_date)
     THEN DateFilters(TargetDateInt(task.target_date.s))
     ELSE <<>>)
    \o
    (IF Truthy(task.target_version)
     THEN <<MetadataFilter("version", task.target_version.s, "EQ")>>
     ELSE <<>>)
    \o
    (IF Truthy(task.protocol_type)
     THEN <<MetadataFilter("protocol_type", task.protocol_type.s, "EQ")>>
     ELSE <<>>)

\* CompileFilters with the protocol_type filter under the precision test.
CompileFiltersProtocolPrecisionOnly(task) ==
    (IF task.mode = "precision" /\ Truthy(task.target_date)
     THEN DateFilters(TargetDateInt(task.target_date.s))
     ELSE <<>>)
    \o
    (IF task.mode = "precision" /\ Truthy(task.target_version)
     THEN <<MetadataFilter("version", task.target_version.s, "EQ")>>
     ELSE <<>>)
    \o
    (IF task.mode = "precision" /\ Truthy(task.protocol_type)
     THEN <<MetadataFilter("protocol_type", task.protocol_type.s, "EQ")>>
     ELSE <<>>)

\* CompileFilters with a filter on system_domain as well.
CompileFiltersWithDomain(task) ==
    (IF task.mode = "precision" /\ Truthy(task.target_date)
     THEN DateFilters(TargetDateInt(task.target_date.s))
     ELSE <<>>)
    \o
    (IF task.mode = "precision" /\ Truthy(task.target_version)
     THEN <<MetadataFilter("version", task.target_version.s, "EQ")>>
     ELSE <<>>)
    \o
    (IF Truthy(task.protocol_type)
     THEN <<MetadataFilter("protocol_type", task.protocol_type.s, "EQ")>>
     ELSE <<>>)
    \o
    (IF Truthy(task.system_domain)
     THEN <<MetadataFilter("system_domain", task.system_domain.s, "EQ")>>
     ELSE <<>>)

\* The list `filters` the retriever builds from a task.
CompileFilters(task) ==
    (IF task.mode = "precision" /\ Truthy(task.target_date)
     THEN DateFilters(TargetDateInt(task.target_date.s))
     ELSE <<>>)
    \o
    (IF task.mode = "precision" /\ Truthy(task.target_version)
     THEN <<MetadataFilter("version", task.target_version.s, "EQ")>>
     ELSE <<>>)
    \o
    (IF Truthy(task.protocol_type)
     THEN <<MetadataFilter("protocol_type", task.protocol_type.s, "EQ")>>
     ELSE <<>>)

\* metadata_filters: MetadataFilters(filters) if there is a filter, else None.
MetadataFilters(filters) == IF Len(filters) > 0 THEN Some(filters) ELSE None

\* ---------------------------------------------------------------------------
\* State of one run
\* ---------------------------------------------------------------------------

VARIABLES
    query,          \* the query of the StartEvent (workflow.run(query=...))
    storeByRef,     \* whether ctx.store.get hands out the stored list itself
    plannerPc,      \* where the planner step is
    plan,           \* prediction.plan.tasks, once the planner collaborator returned
    store,          \* ctx.store: the keys set so far and their values
    ret,            \* the retriever step instance of each RetrievalTaskEvent
    agg,            \* the aggregator step instance of each RetrievalResultEvent
    aceQueue,       \* AugmentedContextEvents emitted and not yet consumed
    aceLog,         \* every AugmentedContextEvent emitted so far
    synthLog,       \* every AugmentedContextEvent the synthesizer step consumed
    synthCalls,     \* the calls made to self.dspy_synthesizer
    rerankCalls,    \* the number of calls to reranker.postprocess_nodes
    stopQueue,      \* StopEvents emitted and not yet delivered
    stopLog,        \* the result of every StopEvent emitted so far
    outcome,        \* the run: still running, or ended with a result
    plannerCalls,   \* the number of calls to self.dspy_planner
    raised,         \* exceptions that left a step and are not yet delivered
    other           \* a second run on the same workflow object, with its Context

vars ==
    <<query, storeByRef, plannerPc, plan, store, ret, agg, aceQueue, aceLog,
      synthLog, synthCalls, rerankCalls, stopQueue, stopLog, outcome,
      plannerCalls, raised, other>>

Slots == 1..MaxTasks

NoTask ==
    [mode |-> "", target_date |-> None, target_version |-> None,
     protocol_type |-> None, system_domain |-> None, rewritten_query |-> ""]

\* RetrievalResultEvent(nodes, task); src tells apart the events of two equal
\* tasks (two event objects).
RetrievalResultEvent(nodes, task, src) ==
    [nodes |-> nodes, task |-> task, src |-> src]

NoEvent == RetrievalResultEvent(<<>>, NoTask, 0)

AugmentedContextEvent(results, original_query) ==
    [results |-> results, original_query |-> original_query]

EmptyStore ==
    [keys |-> {}, total_tasks |-> 0, results |-> <<>>, original_query |-> ""]

\* ctx.store.set(key, value)
StoreSet(st, key, value) ==
    [[st EXCEPT ![key] = value] EXCEPT !.keys = st.keys \cup {key}]

\* ctx.store.get("results", default=[])
StoreGetResults(st) == IF "results" \in st.keys THEN st.results ELSE <<>>

\* reranker.postprocess_nodes is an ordinary call inside the retriever
\* coroutine, not an awaited one: while it is in progress the event loop runs
\* nothing else.
LoopFree == \A i \in Slots : ret[i].pc # "reranking"

\* The run has not ended and the event loop is free to resume a step
\* instance or deliver an event.
Running == ~outcome.done /\ LoopFree

\* The query, the one-task Plan and the RetrievalResultEvent of the second
\* run.
OtherQuery == "What changed in the AEB pedestrian scenarios?"

OtherTask ==
    [mode |-> "global", target_date |-> None, target_version |-> None,
     protocol_type |-> None, system_domain |-> None,
     rewritten_query |-> "AEB pedestrian scenarios"]

OtherPlan == <<OtherTask>>

OtherEvent == RetrievalResultEvent(<<"c.pdf">>, OtherTask, MaxTasks + 1)

\* The second run before workflow.run is called for it: its Context's store
\* and the locals of its aggregator instance.
OtherInit ==
    [pc |-> "idle", store |-> EmptyStore, total_tasks |-> 0,
     original_query |-> "", results |-> <<>>, returned |-> "nothing",
     ace |-> AugmentedContextEvent(<<>>, "")]

Init ==
    /\ query \in Queries
    /\ storeByRef \in BOOLEAN
    /\ plannerPc = "start"
    /\ plan = <<>>
    /\ store = EmptyStore
    /\ ret = [i \in Slots |-> [pc |-> "idle", task |-> NoTask,
                               metadata_filters |-> None,
                               vector_nodes |-> <<>>, reranked |-> FALSE]]
    /\ agg = [i \in Slots |-> [pc |-> "idle", ev |-> NoEvent, total_tasks |-> 0,
                               original_query |-> "", results |-> <<>>,
                               shared |-> FALSE, returned |-> "nothing",
                               order |-> 0]]
    /\ aceQueue = <<>>
    /\ aceLog = <<>>
    /\ synthLog = <<>>
    /\ synthCalls = <<>>
    /\ rerankCalls = 0
    /\ stopQueue = <<>>
    /\ stopLog = <<>>
    /\ outcome = [done |-> FALSE, kind |-> "running", result |-> ""]
    /\ plannerCalls = 0
    /\ raised = <<>>
    /\ other = OtherInit

\* A step returns or sends StopEvent(result=r).
EmitStop(r) ==
    /\ stopQueue' = Append(stopQueue, r)
    /\ stopLog' = Append(stopLog, r)

\* ---------------------------------------------------------------------------
\* planner step
\* ---------------------------------------------------------------------------

\* task_count
TaskCount(tasks) == Len(tasks)

\* IsEmptyPlan with a test no count passes.
IsEmptyPlanNever(task_count) == task_count < 0

\* The test `task_count == 0`.
IsEmptyPlan(task_count) == task_count = 0

\* PlannerCall asking the collaborator a second time.
PlannerCallTwice ==
    /\ Running
    /\ plannerPc = "start"
    /\ plannerCalls' = plannerCalls + 2
    /\ \E p \in Plans :
        /\ plan' = p
        /\ IF IsEmptyPlan(TaskCount(p))
           THEN /\ plannerPc' = "done"
                /\ EmitStop(NoKnowledgeMsg)
           ELSE /\ plannerPc' = "set_total_tasks"
                /\ UNCHANGED <<stopQueue, stopLog>>
    /\ UNCHANGED <<other, raised, query, storeByRef, store, ret, agg, aceQueue, aceLog,
                   synthLog, synthCalls, rerankCalls, outcome>>

\* From the StartEvent to the first await: the planner collaborator is called
\* and returns a Plan; an empty Plan ends the step with a StopEvent.
PlannerCall ==
    /\ Running
    /\ plannerPc = "start"
    /\ plannerCalls' = plannerCalls + 1
    /\ \E p \in Plans :
        /\ plan' = p
        /\ IF IsEmptyPlan(TaskCount(p))
           THEN /\ plannerPc' = "done"
                /\ EmitStop(NoKnowledgeMsg)
           ELSE /\ plannerPc' = "set_total_tasks"
                /\ UNCHANGED <<stopQueue, stopLog>>
    /\ UNCHANGED <<other, raised, query, storeByRef, store, ret, agg, aceQueue, aceLog,
                   synthLog, synthCalls, rerankCalls, outcome>>

\* PlannerSetTotalTasks with the store.set left out.
PlannerSkipsTotalTasks ==
    /\ Running
    /\ plannerPc = "set_total_tasks"
    /\ plannerPc' = "set_results"
    /\ UNCHANGED <<other, raised, plannerCalls, query, storeByRef, plan, store, ret, agg,
                   aceQueue, aceLog, synthLog, synthCalls, rerankCalls,
                   stopQueue, stopLog, outcome>>

\* await ctx.store.set("total_tasks", task_count)
PlannerSetTotalTasks ==
    /\ Running
    /\ plannerPc = "set_total_tasks"
    /\ store' = StoreSet(store, "total_tasks", TaskCount(plan))
    /\ plannerPc' = "set_results"
    /\ UNCHANGED <<other, raised, plannerCalls, query, storeByRef, plan, ret, agg, aceQueue, aceLog, synthLog,
                   synthCalls, rerankCalls, stopQueue, stopLog, outcome>>

\* await ctx.store.set("results", [])
PlannerSetResults ==
    /\ Running
    /\ plannerPc = "set_results"
    /\ store' = StoreSet(store, "results", <<>>)
    /\ plannerPc' = "set_original_query"
    /\ UNCHANGED <<other, raised, plannerCalls, query, storeByRef, plan, ret, agg, aceQueue, aceLog, synthLog,
                   synthCalls, rerankCalls, stopQueue, stopLog, outcome>>

\* await ctx.store.set("original_query", query)
PlannerSetOriginalQuery ==
    /\ Running
    /\ plannerPc = "set_original_query"
    /\ store' = StoreSet(store, "original_query", query)
    /\ plannerPc' = "send"
    /\ UNCHANGED <<other, raised, plannerCalls, query, storeByRef, plan, ret, agg, aceQueue, aceLog, synthLog,
                   synthCalls, rerankCalls, stopQueue, stopLog, outcome>>

\* PlannerSend with a loop that stops one task short.
PlannerSendSkipsLast ==
    /\ Running
    /\ plannerPc = "send"
    /\ ret' = [i \in Slots |->
                 IF i < Len(plan)
                 THEN [ret[i] EXCEPT !.pc = "queued", !.task = plan[i]]
                 ELSE ret[i]]
    /\ plannerPc' = "done"
    /\ UNCHANGED <<other, raised, plannerCalls, query, storeByRef, plan, store, agg,
                   aceQueue, aceLog, synthLog, synthCalls, rerankCalls,
                   stopQueue, stopLog, outcome>>

\* The loop over plan.tasks: one ctx.send_event(RetrievalTaskEvent(task=t))
\* per task, then return None.
PlannerSend ==
    /\ Running
    /\ plannerPc = "send"
    /\ ret' = [i \in Slots |->
                 IF i <= Len(plan)
                 THEN [ret[i] EXCEPT !.pc = "queued", !.task = plan[i]]
                 ELSE ret[i]]
    /\ plannerPc' = "done"
    /\ UNCHANGED <<other, raised, plannerCalls, query, storeByRef, plan, store, agg, aceQueue, aceLog,
                   synthLog, synthCalls, rerankCalls, stopQueue, stopLog, outcome>>

\* ---------------------------------------------------------------------------
\* retriever step
\* ---------------------------------------------------------------------------

\* RetrieverStart writing the date without dashes back into the task.
RetrieverStartRewritesTask(i) ==
    /\ Running
    /\ ret[i].pc = "queued"
    /\ ret' = [ret EXCEPT ![i].pc = "retrieving",
                          ![i].metadata_filters =
                              MetadataFilters(CompileFilters(ret[i].task)),
                          ![i].task.target_date.s =
                              RemoveDashes(ret[i].task.target_date.s)]
    /\ UNCHANGED <<other, raised, plannerCalls, query, storeByRef, plannerPc, plan, store, agg, aceQueue,
                   aceLog, synthLog, synthCalls, rerankCalls, stopQueue,
                   stopLog, outcome>>

\* From the RetrievalTaskEvent to `await vector_retriever.aretrieve(...)`: the
\* filters are compiled and handed to index.as_retriever.
RetrieverStart(i) ==
    /\ Running
    /\ ret[i].pc = "queued"
    /\ ret' = [ret EXCEPT ![i].pc = "retrieving",
                          ![i].metadata_filters =
                              MetadataFilters(CompileFilters(ret[i].task))]
    /\ UNCHANGED <<other, raised, plannerCalls, query, storeByRef, plannerPc, plan, store, agg, aceQueue,
                   aceLog, synthLog, synthCalls, rerankCalls, stopQueue,
                   stopLog, outcome>>

\* aretrieve returns nodes and the step calls reranker.postprocess_nodes on
\* them.
RetrieverRerank(i) ==
    /\ Running
    /\ ret[i].pc = "retrieving"
    /\ \E vector_nodes \in VectorOutcomes :
        /\ Len(vector_nodes) > 0
        /\ ret' = [ret EXCEPT ![i].pc = "reranking",
                              ![i].vector_nodes = vector_nodes,
                              ![i].reranked = TRUE]
    /\ rerankCalls' = rerankCalls + 1
    /\ UNCHANGED <<other, raised, plannerCalls, query, storeByRef, plannerPc, plan,
                   store, agg, aceQueue, aceLog, synthLog, synthCalls,
                   stopQueue, stopLog, outcome>>

\* RetrieverFinish handing the nodes to the reranker also when there are
\* none.
RetrieverFinishAlwaysReranks(i) ==
    /\ ~outcome.done
    /\ \/ /\ ret[i].pc = "reranking"
          /\ \E reranked_nodes \in RerankOutcomes(ret[i].vector_nodes) :
                 agg' = [agg EXCEPT ![i].pc = "queued",
                                    ![i].ev = RetrievalResultEvent(
                                                  reranked_nodes, ret[i].task, i)]
          /\ ret' = [ret EXCEPT ![i].pc = "done"]
          /\ UNCHANGED rerankCalls
       \/ /\ LoopFree
          /\ ret[i].pc = "retrieving"
          /\ agg' = [agg EXCEPT ![i].pc = "queued",
                                ![i].ev = RetrievalResultEvent(
                                              <<>>, ret[i].task, i)]
          /\ ret' = [ret EXCEPT ![i].pc = "done",
                                ![i].vector_nodes = <<>>,
                                ![i].reranked = TRUE]
          /\ rerankCalls' = rerankCalls + 1
    /\ UNCHANGED <<other, raised, plannerCalls, query, storeByRef, plannerPc, plan,
                   store, aceQueue, aceLog, synthLog, synthCalls, stopQueue,
                   stopLog, outcome>>

\* The step returns RetrievalResultEvent(nodes=reranked_nodes, task=task):
\* postprocess_nodes returned reranked_nodes, or aretrieve returned no nodes
\* and reranked_nodes is [].
RetrieverFinish(i) ==
    /\ ~outcome.done
    /\ \/ /\ ret[i].pc = "reranking"
          /\ \E reranked_nodes \in RerankOutcomes(ret[i].vector_nodes) :
                 agg' = [agg EXCEPT ![i].pc = "queued",
                                    ![i].ev = RetrievalResultEvent(
                                                  reranked_nodes, ret[i].task, i)]
          /\ ret' = [ret EXCEPT ![i].pc = "done"]
       \/ /\ LoopFree
          /\ ret[i].pc = "retrieving"
          /\ agg' = [agg EXCEPT ![i].pc = "queued",
                                ![i].ev = RetrievalResultEvent(
                                              <<>>, ret[i].task, i)]
          /\ ret' = [ret EXCEPT ![i].pc = "done",
                                ![i].vector_nodes = <<>>]
    /\ UNCHANGED <<other, raised, plannerCalls, query, storeByRef, plannerPc, plan,
                   store, rerankCalls, aceQueue, aceLog, synthLog, synthCalls,
                   stopQueue, stopLog, outcome>>

\* ---------------------------------------------------------------------------
\* aggregator step
\* ---------------------------------------------------------------------------

\* The list the local variable `results` of instance i names: the list kept
\* in the store when the store handed out that very list, else the
\* instance's own list.
LocalResults(i) == IF agg[i].shared THEN store.results ELSE agg[i].results

\* AllCollected one result early.
AllCollectedOneEarly(current_count, total_tasks) ==
    current_count >= total_tasks - 1

\* The test `current_count >= total_tasks`.
AllCollected(current_count, total_tasks) == current_count >= total_tasks

\* The step is started on a RetrievalResultEvent and suspends in
\* `await ctx.store.get("total_tasks")`.
AggStart(i) ==
    /\ Running
    /\ agg[i].pc = "queued"
    /\ agg' = [agg EXCEPT ![i].pc = "get_total_tasks"]
    /\ UNCHANGED <<other, raised, plannerCalls, query, storeByRef, plannerPc, plan, store, ret, aceQueue,
                   aceLog, synthLog, synthCalls, rerankCalls, stopQueue,
                   stopLog, outcome>>

\* total_tasks = await ctx.store.get("total_tasks"), up to the next await.
AggGetTotalTasks(i) ==
    /\ Running
    /\ agg[i].pc = "get_total_tasks"
    /\ "total_tasks" \in store.keys
    /\ agg' = [agg EXCEPT ![i].pc = "get_original_query",
                          ![i].total_tasks = store.total_tasks]
    /\ UNCHANGED <<other, raised, plannerCalls, query, storeByRef, plannerPc, plan, store, ret, aceQueue,
                   aceLog, synthLog, synthCalls, rerankCalls, stopQueue,
                   stopLog, outcome>>

\* original_query = await ctx.store.get("original_query"), up to the next
\* await.
AggGetOriginalQuery(i) ==
    /\ Running
    /\ agg[i].pc = "get_original_query"
    /\ "original_query" \in store.keys
    /\ agg' = [agg EXCEPT ![i].pc = "get_results",
                          ![i].original_query = store.original_query]
    /\ UNCHANGED <<other, raised, plannerCalls, query, storeByRef, plannerPc, plan, store, ret, aceQueue,
                   aceLog, synthLog, synthCalls, rerankCalls, stopQueue,
                   stopLog, outcome>>

\* results = await ctx.store.get("results", default=[]); results.append(ev);
\* then the step suspends in `await ctx.store.set("results", results)`.
\* When the store hands out the stored list itself, the append changes the
\* stored list at once.
AggGetResultsAppend(i) ==
    /\ Running
    /\ agg[i].pc = "get_results"
    /\ LET shared == storeByRef /\ "results" \in store.keys
           results == Append(StoreGetResults(store), agg[i].ev)
       IN /\ agg' = [agg EXCEPT ![i].pc = "set_results",
                                ![i].order = 1 + Cardinality(
                                    {j \in Slots : agg[j].order > 0}),
                                ![i].shared = shared,
                                ![i].results = IF shared THEN <<>> ELSE results]
          /\ store' = IF shared THEN [store EXCEPT !.results = results] ELSE store
    /\ UNCHANGED <<other, raised, plannerCalls, query, storeByRef, plannerPc, plan, ret, aceQueue, aceLog,
                   synthLog, synthCalls, rerankCalls, stopQueue, stopLog,
                   outcome>>

\* ctx.store.set("results", results) takes effect; the step is not resumed
\* yet.
AggSetResults(i) ==
    /\ Running
    /\ agg[i].pc = "set_results"
    /\ store' = StoreSet(store, "results", LocalResults(i))
    /\ agg' = [agg EXCEPT ![i].pc = "written"]
    /\ UNCHANGED <<other, raised, plannerCalls, query, storeByRef, plannerPc, plan, ret, aceQueue, aceLog,
                   synthLog, synthCalls, rerankCalls, stopQueue, stopLog,
                   outcome>>

\* The step resumes after the set: current_count = len(results), and the
\* AugmentedContextEvent is returned when the count reaches total_tasks.
AggCompare(i) ==
    /\ Running
    /\ agg[i].pc = "written"
    /\ LET results == LocalResults(i)
           current_count == Len(results)
       IN IF AllCollected(current_count, agg[i].total_tasks)
          THEN LET ev == AugmentedContextEvent(results, agg[i].original_query)
               IN /\ aceQueue' = Append(aceQueue, ev)
                  /\ aceLog' = Append(aceLog, ev)
          ELSE UNCHANGED <<aceQueue, aceLog>>
    /\ agg' = [agg EXCEPT
                 ![i].pc = "done",
                 ![i].returned =
                     IF AllCollected(Len(LocalResults(i)), agg[i].total_tasks)
                     THEN "AugmentedContextEvent" ELSE "None"]
    /\ UNCHANGED <<other, raised, plannerCalls, query, storeByRef, plannerPc, plan, store, ret, synthLog,
                   synthCalls, rerankCalls, stopQueue, stopLog, outcome>>

\* ---------------------------------------------------------------------------
\* synthesizer step
\* ---------------------------------------------------------------------------

\* HasContent set for a result without nodes too.
HasContentAnyResult(results) == Len(results) > 0

\* has_content: some result of the event has nodes.
HasContent(results) == \E k \in 1..Len(results) : Len(results[k].nodes) > 0

\* The block appended to context_parts for results[k]: its label (position
\* in the event, the task's date or 'Any', the task's mode) and, for each
\* node, its file name (and content).
ContextBlock(results, k) ==
    [source |-> k,
     date |-> IF Truthy(results[k].task.target_date)
              THEN results[k].task.target_date.s ELSE <<"Any">>,
     mode |-> results[k].task.mode,
     content |-> results[k].nodes]

\* ContextParts with each block put in front of the earlier ones.
RECURSIVE ContextPartsReversed(_, _)
ContextPartsReversed(results, n) ==
    IF n = 0 THEN <<>>
    ELSE IF Len(results[n].nodes) = 0
         THEN ContextPartsReversed(results, n - 1)
         ELSE <<ContextBlock(results, n)>> \o ContextPartsReversed(results, n - 1)

\* context_parts after the loop prefix 1..n: a block per result with nodes.
RECURSIVE ContextParts(_, _)
ContextParts(results, n) ==
    IF n = 0 THEN <<>>
    ELSE IF Len(results[n].nodes) = 0
         THEN ContextParts(results, n - 1)
         ELSE Append(ContextParts(results, n - 1), ContextBlock(results, n))

\* full_context = "\n".join(context_parts): the blocks in the order of
\* context_parts.
FullContext(results) == ContextParts(results, Len(results))

\* The whole step (it has no await): consume an AugmentedContextEvent, and
\* return the fixed message without a call, or the answer of one call to the
\* synthesizer collaborator.
Synthesizer ==
    /\ Running
    /\ aceQueue # <<>>
    /\ LET ev == Head(aceQueue)
       IN /\ synthLog' = Append(synthLog, ev)
          /\ IF ~HasContent(ev.results)
             THEN /\ EmitStop(NotFoundMsg)
                  /\ UNCHANGED synthCalls
             ELSE /\ synthCalls' = Append(synthCalls,
                                         [context |-> FullContext(ev.results),
                                          query |-> ev.original_query])
                  /\ \E answer \in Answers : EmitStop(answer)
    /\ aceQueue' = Tail(aceQueue)
    /\ UNCHANGED <<other, raised, plannerCalls, query, storeByRef, plannerPc, plan, store, ret, agg, aceLog,
                   rerankCalls, outcome>>

\* ---------------------------------------------------------------------------
\* The run
\* ---------------------------------------------------------------------------

\* A StopEvent is delivered: the run ends with its result, and whatever step
\* instance is still pending is never resumed.
RunEnd ==
    /\ Running
    /\ stopQueue # <<>>
    /\ outcome' = [done |-> TRUE, kind |-> "answer", result |-> Head(stopQueue)]
    /\ stopQueue' = Tail(stopQueue)
    /\ UNCHANGED <<other, raised, plannerCalls, query, storeByRef, plannerPc, plan, store, ret, agg, aceQueue,
                   aceLog, synthLog, synthCalls, rerankCalls, stopLog>>

Next ==
    \/ PlannerCall
    \/ PlannerSetTotalTasks
    \/ PlannerSetResults
    \/ PlannerSetOriginalQuery
    \/ PlannerSend
    \/ \E i \in Slots : RetrieverStart(i)
    \/ \E i \in Slots : RetrieverRerank(i)
    \/ \E i \in Slots : RetrieverFinish(i)
    \/ \E i \in Slots : AggStart(i)
    \/ \E i \in Slots : AggGetTotalTasks(i)
    \/ \E i \in Slots : AggGetOriginalQuery(i)
    \/ \E i \in Slots : AggGetResultsAppend(i)
    \/ \E i \in Slots : AggSetResults(i)
    \/ \E i \in Slots : AggCompare(i)
    \/ Synthesizer
    \/ RunEnd

Spec == Init /\ [][Next]_vars

\* ---------------------------------------------------------------------------
\* Collaborator faults and the timeout
\* ---------------------------------------------------------------------------

\* self.dspy_planner raises: the planner step has no handler and no retry,
\* so the exception leaves the step before any store.set or send_event.
PlannerFault ==
    /\ Running
    /\ plannerPc = "start"
    /\ plannerCalls' = plannerCalls + 1
    /\ plannerPc' = "failed"
    /\ raised' = Append(raised, "planner")
    /\ UNCHANGED <<other, query, storeByRef, plan, store, ret, agg, aceQueue, aceLog,
                   synthLog, synthCalls, rerankCalls, stopQueue, stopLog, outcome>>

\* RetrieverFault with the exception caught inside the step, which then
\* returns no event.
RetrieverFaultSwallowed(i) ==
    /\ Running
    /\ ret[i].pc = "retrieving"
    /\ \/ UNCHANGED rerankCalls /\ ret' = [ret EXCEPT ![i].pc = "failed"]
       \/ \E vector_nodes \in VectorOutcomes :
              /\ Len(vector_nodes) > 0
              /\ rerankCalls' = rerankCalls + 1
              /\ ret' = [ret EXCEPT ![i].pc = "failed",
                                    ![i].vector_nodes = vector_nodes,
                                    ![i].reranked = TRUE]
    /\ UNCHANGED <<other, raised, plannerCalls, query, storeByRef, plannerPc, plan,
                   store, agg, aceQueue, aceLog, synthLog, synthCalls,
                   stopQueue, stopLog, outcome>>

\* vector_retriever.aretrieve raises, or it returns nodes and
\* reranker.postprocess_nodes raises: the retriever step has no handler, so
\* the exception leaves the step and no RetrievalResultEvent is returned.
RetrieverFault(i) ==
    /\ Running
    /\ ret[i].pc = "retrieving"
    /\ \/ UNCHANGED rerankCalls /\ ret' = [ret EXCEPT ![i].pc = "failed"]
       \/ \E vector_nodes \in VectorOutcomes :
              /\ Len(vector_nodes) > 0
              /\ rerankCalls' = rerankCalls + 1
              /\ ret' = [ret EXCEPT ![i].pc = "failed",
                                    ![i].vector_nodes = vector_nodes,
                                    ![i].reranked = TRUE]
    /\ raised' = Append(raised, "retriever")
    /\ UNCHANGED <<other, plannerCalls, query, storeByRef, plannerPc, plan, store, agg,
                   aceQueue, aceLog, synthLog, synthCalls, stopQueue, stopLog,
                   outcome>>

\* self.dspy_synthesizer raises: the synthesizer step has no handler, so the
\* exception leaves the step and no StopEvent is returned.
SynthesizerFault ==
    /\ Running
    /\ aceQueue # <<>>
    /\ LET ev == Head(aceQueue)
       IN /\ HasContent(ev.results)
          /\ synthLog' = Append(synthLog, ev)
          /\ synthCalls' = Append(synthCalls,
                                  [context |-> FullContext(ev.results),
                                   query |-> ev.original_query])
    /\ aceQueue' = Tail(aceQueue)
    /\ raised' = Append(raised, "synthesizer")
    /\ UNCHANGED <<other, plannerCalls, query, storeByRef, plannerPc, plan, store, ret,
                   agg, aceLog, rerankCalls, stopQueue, stopLog, outcome>>

\* An exception that left a step is delivered: the run ends with an error.
RunFail ==
    /\ Running
    /\ raised # <<>>
    /\ outcome' = [done |-> TRUE, kind |-> "error", result |-> ""]
    /\ raised' = Tail(raised)
    /\ UNCHANGED <<other, plannerCalls, query, storeByRef, plannerPc, plan, store, ret,
                   agg, aceQueue, aceLog, synthLog, synthCalls, rerankCalls,
                   stopQueue, stopLog>>

\* Timeout ending the run with an answer made of the results stored so far.
TimeoutReturnsPartial ==
    /\ Running
    /\ \E a \in Answers :
           outcome' = [done |-> TRUE, kind |-> "answer", result |-> a]
    /\ UNCHANGED <<other, raised, plannerCalls, query, storeByRef, plannerPc, plan,
                   store, ret, agg, aceQueue, aceLog, synthLog, synthCalls,
                   rerankCalls, stopQueue, stopLog>>

\* TimeoutNever: a workflow built with timeout=None.
TimeoutNever ==
    /\ FALSE
    /\ UNCHANGED vars

\* The timeout given to Workflow.__init__ elapses before a terminal event is
\* delivered: the run ends with a timeout error, and no step instance is
\* resumed after it.
Timeout ==
    /\ Running
    /\ outcome' = [done |-> TRUE, kind |-> "timeout", result |-> ""]
    /\ UNCHANGED <<other, raised, plannerCalls, query, storeByRef, plannerPc, plan,
                   store, ret, agg, aceQueue, aceLog, synthLog, synthCalls,
                   rerankCalls, stopQueue, stopLog>>

Faults ==
    \/ PlannerFault
    \/ \E i \in Slots : RetrieverFault(i)
    \/ SynthesizerFault
    \/ RunFail

\* Runs in which collaborators may raise.
NextFaults == Next \/ Faults

SpecFaults == Init /\ [][NextFaults]_vars

\* Runs in which the timeout may elapse.
NextTimeout == Next \/ Timeout

SpecTimeout == Init /\ [][NextTimeout]_vars

\* Runs in which collaborators may raise and the timeout may elapse, with
\* the scheduling the event loop gives: a delivery that is due happens, and
\* the timer fires if the run is still going; a call to the reranker that
\* does not raise returns.
NextAll == Next \/ Faults \/ Timeout

SpecLive ==
    /\ Init
    /\ [][NextAll]_vars
    /\ WF_vars(RunEnd)
    /\ WF_vars(RunFail)
    /\ WF_vars(Timeout)
    /\ WF_vars(\E i \in Slots : ret[i].pc = "reranking" /\ RetrieverFinish(i))

\* ---------------------------------------------------------------------------
\* A second run on the same workflow object
\* ---------------------------------------------------------------------------

\* The variables of the first run.
runVars ==
    <<query, storeByRef, plannerPc, plan, store, ret, agg, aceQueue, aceLog,
      synthLog, synthCalls, rerankCalls, stopQueue, stopLog, outcome,
      plannerCalls, raised>>

\* workflow.run(query=OtherQuery) is called while the first run may be going
\* on: the run gets a Context of its own, and its planner step gets a
\* one-task Plan from the planner collaborator.
OtherPlannerCall ==
    /\ LoopFree
    /\ other.pc = "idle"
    /\ other' = [other EXCEPT !.pc = "set_total_tasks"]
    /\ UNCHANGED runVars

\* OtherPlannerSetTotalTasks with the store kept on the workflow object, so
\* that both runs write the same one.
OtherPlannerSetTotalTasksOnSelf ==
    /\ LoopFree
    /\ other.pc = "set_total_tasks"
    /\ store' = StoreSet(store, "total_tasks", TaskCount(OtherPlan))
    /\ other' = [other EXCEPT !.pc = "set_results"]
    /\ UNCHANGED <<query, storeByRef, plannerPc, plan, ret, agg, aceQueue,
                   aceLog, synthLog, synthCalls, rerankCalls, stopQueue,
                   stopLog, outcome, plannerCalls, raised>>

\* await ctx.store.set("total_tasks", task_count) in the second run.
OtherPlannerSetTotalTasks ==
    /\ LoopFree
    /\ other.pc = "set_total_tasks"
    /\ other' = [other EXCEPT
                    !.store = StoreSet(other.store, "total_tasks",
                                       TaskCount(OtherPlan)),
                    !.pc = "set_results"]
    /\ UNCHANGED runVars

\* await ctx.store.set("results", []) in the second run.
OtherPlannerSetResults ==
    /\ LoopFree
    /\ other.pc = "set_results"
    /\ other' = [other EXCEPT
                    !.store = StoreSet(other.store, "results", <<>>),
                    !.pc = "set_original_query"]
    /\ UNCHANGED runVars

\* await ctx.store.set("original_query", query) in the second run, the send
\* of its RetrievalTaskEvent and its retriever step, which touches no store.
OtherPlannerSetOriginalQuery ==
    /\ LoopFree
    /\ other.pc = "set_original_query"
    /\ other' = [other EXCEPT
                    !.store = StoreSet(other.store, "original_query",
                                       OtherQuery),
                    !.pc = "get_total_tasks"]
    /\ UNCHANGED runVars

\* total_tasks = await ctx.store.get("total_tasks") in the second run.
OtherAggGetTotalTasks ==
    /\ LoopFree
    /\ other.pc = "get_total_tasks"
    /\ other' = [other EXCEPT !.total_tasks = other.store.total_tasks,
                              !.pc = "get_original_query"]
    /\ UNCHANGED runVars

\* original_query = await ctx.store.get("original_query") in the second run.
OtherAggGetOriginalQuery ==
    /\ LoopFree
    /\ other.pc = "get_original_query"
    /\ other' = [other EXCEPT !.original_query = other.store.original_query,
                              !.pc = "get_results"]
    /\ UNCHANGED runVars

\* results = await ctx.store.get("results", default=[]); results.append(ev)
\* in the second run.
OtherAggGetResultsAppend ==
    /\ LoopFree
    /\ other.pc = "get_results"
    /\ LET results == Append(StoreGetResults(other.store), OtherEvent)
       IN other' = [other EXCEPT
                       !.results = results,
                       !.store = IF storeByRef /\ "results" \in other.store.keys
                                 THEN [other.store EXCEPT !.results = results]
                                 ELSE other.store,
                       !.pc = "agg_set_results"]
    /\ UNCHANGED runVars

\* await ctx.store.set("results", results) in the second run.
OtherAggSetResults ==
    /\ LoopFree
    /\ other.pc = "agg_set_results"
    /\ other' = [other EXCEPT
                    !.store = StoreSet(other.store, "results", other.results),
                    !.pc = "written"]
    /\ UNCHANGED runVars

\* The count comparison and the return of the second run's aggregator
\* instance.
OtherAggCompare ==
    /\ LoopFree
    /\ other.pc = "written"
    /\ IF AllCollected(Len(other.results), other.total_tasks)
       THEN other' = [other EXCEPT
                         !.ace = AugmentedContextEvent(other.results,
                                                       other.original_query),
                         !.returned = "AugmentedContextEvent",
                         !.pc = "done"]
       ELSE other' = [other EXCEPT !.returned = "None", !.pc = "done"]
    /\ UNCHANGED runVars

OtherRun ==
    \/ OtherPlannerCall
    \/ OtherPlannerSetTotalTasks
    \/ OtherPlannerSetResults
    \/ OtherPlannerSetOriginalQuery
    \/ OtherAggGetTotalTasks
    \/ OtherAggGetOriginalQuery
    \/ OtherAggGetResultsAppend
    \/ OtherAggSetResults
    \/ OtherAggCompare

\* Two runs going on at once.
NextTwoRuns == Next \/ OtherRun

SpecTwoRuns == Init /\ [][NextTwoRuns]_vars

\* ---------------------------------------------------------------------------
\* Vocabulary of the properties
\* ---------------------------------------------------------------------------

\* The size of the Plan.
N == Len(plan)

\* The planner collaborator has returned.
Planned == plannerPc # "start"

Dispatches == 1..N

\* The aggregator has been started on the result of dispatch i.
Arrived(i) == agg[i].pc \notin {"idle", "queued"}

\* The aggregator instance of dispatch i has appended its event.
Appended(i) == agg[i].pc \in {"set_results", "written", "done"}

\* The aggregator instance of dispatch i has completed its store write.
Wrote(i) == agg[i].pc \in {"written", "done"}

\* Every aggregator instance of the run has returned.
AllReturned == plannerPc = "done" /\ N >= 1 /\ \A i \in Dispatches : agg[i].pc = "done"

Returned(i, what) == agg[i].pc = "done" /\ agg[i].returned = what

\* The dispatches whose events a list of results holds.
SourcesOf(results) == {results[k].src : k \in 1..Len(results)}

\* ---------------------------------------------------------------------------
\* C1: for a Plan of N >= 1 tasks and any interleaving of the step instances,
\* the aggregator emits AugmentedContextEvent exactly once per run, and only
\* after all N RetrievalResultEvents have been processed.
\* ---------------------------------------------------------------------------
C1_FireOnceFireComplete ==
    /\ Len(aceLog) <= 1
    /\ Len(aceLog) >= 1 => \A i \in Dispatches : Appended(i)
    /\ AllReturned => Len(aceLog) = 1

\* ---------------------------------------------------------------------------
\* C2: the aggregator's read, append, write and compare are atomic with
\* respect to the other aggregator instances: the stored results hold, once
\* each, the event of every instance that completed its write and of no
\* instance that has not appended, and of the instances of a run exactly one
\* decides to fire.
\* ---------------------------------------------------------------------------
C2_AppendCompareAtomic ==
    /\ {i \in Dispatches : Wrote(i)} \subseteq SourcesOf(store.results)
    /\ SourcesOf(store.results) \subseteq {i \in Dispatches : Appended(i)}
    /\ Len(store.results) = Cardinality(SourcesOf(store.results))
    /\ Cardinality({i \in Dispatches : Returned(i, "AugmentedContextEvent")}) <= 1
    /\ AllReturned => \E i \in Dispatches : Returned(i, "AugmentedContextEvent")

\* ---------------------------------------------------------------------------
\* C3: the stored results never hold more than N (= total_tasks) events, no
\* more than N RetrievalResultEvents ever reach the aggregator, and none is
\* still to arrive once the AugmentedContextEvent has been emitted.
\* ---------------------------------------------------------------------------
C3_AccumulatorBounded ==
    /\ Len(store.results) <= N
    /\ "total_tasks" \in store.keys => store.total_tasks = N
    /\ Cardinality({i \in Slots : agg[i].pc # "idle"}) <= N
    /\ Len(aceLog) >= 1 =>
           \A i \in Slots : /\ ret[i].pc \in {"idle", "done"}
                            /\ agg[i].pc # "queued"
                            /\ i <= N => Arrived(i)

C3_Witness ==
    /\ N >= 2
    /\ Len(aceLog) >= 1
    /\ Len(store.results) = N

\* ---------------------------------------------------------------------------
\* C4: when the Plan is empty the run ends with the 'no knowledge' message;
\* no RetrievalTaskEvent is emitted, no retriever, reranker, aggregator or
\* synthesizer runs, and the store is not written.
\* ---------------------------------------------------------------------------
C4_EmptyPlanStops ==
    (Planned /\ N = 0) =>
        /\ \A i \in Slots : ret[i].pc = "idle" /\ agg[i].pc = "idle"
        /\ rerankCalls = 0
        /\ aceLog = <<>> /\ synthLog = <<>> /\ synthCalls = <<>>
        /\ store = EmptyStore
        /\ plannerPc = "done"
        /\ stopLog = <<NoKnowledgeMsg>>
        /\ outcome.done => outcome.result = NoKnowledgeMsg

C4_Witness ==
    /\ Planned /\ N = 0
    /\ outcome.done
    /\ outcome.result = NoKnowledgeMsg

\* The filters of dispatch i have been compiled and handed to the search.
Compiled(i) == ret[i].pc \in {"retrieving", "reranking", "done"}

\* The filter list the search of dispatch i was given (none: unfiltered).
FiltersOf(i) ==
    IF ret[i].metadata_filters.isNone THEN <<>> ELSE ret[i].metadata_filters.s

KeysOf(filters) == {filters[k].key : k \in 1..Len(filters)}

\* A field of a task is present: it is neither None nor the empty string.
Present(x) == x # None /\ x # Some(<<>>)

\* ---------------------------------------------------------------------------
\* C5: for a task of mode global the compiled filters hold no start_date,
\* end_date or version predicate, whatever target_date and target_version.
\* ---------------------------------------------------------------------------
C5_GlobalNoDateVersion ==
    \A i \in Slots :
        (Compiled(i) /\ ret[i].task.mode = "global") =>
            KeysOf(FiltersOf(i)) \cap {"start_date", "end_date", "version"} = {}

C5_Witness ==
    \E i \in Slots :
        /\ Compiled(i)
        /\ ret[i].task.mode = "global"
        /\ Present(ret[i].task.target_date)
        /\ Present(ret[i].task.target_version)

\* s is written YYYY-MM-DD.
IsIsoForm(s) ==
    /\ Len(s) = 10
    /\ s[5] = "-" /\ s[8] = "-"
    /\ \A k \in {1, 2, 3, 4, 6, 7, 9, 10} : IsDigit(s[k])

\* year * 10000 + month * 100 + day of a date written YYYY-MM-DD.
YearMonthDay(s) ==
    (DigitVal(s[1]) * 1000 + DigitVal(s[2]) * 100 + DigitVal(s[3]) * 10
        + DigitVal(s[4])) * 10000
    + (DigitVal(s[6]) * 10 + DigitVal(s[7])) * 100
    + (DigitVal(s[9]) * 10 + DigitVal(s[10]))

IsDateFilter(f) == f.key \in {"start_date", "end_date"}

June15 == <<"2", "0", "2", "3", "-", "0", "6", "-", "1", "5">>

\* ---------------------------------------------------------------------------
\* C6: for a precision task whose target_date is written YYYY-MM-DD the
\* compiled filters hold exactly two date predicates, start_date <= d and
\* end_date >= d, d the integer YYYYMMDD of the date; '2023-06-15' gives
\* 20230615.
\* ---------------------------------------------------------------------------
C6_PrecisionDatePair ==
    \A i \in Slots :
        (/\ Compiled(i)
         /\ ret[i].task.mode = "precision"
         /\ ~ret[i].task.target_date.isNone
         /\ IsIsoForm(ret[i].task.target_date.s)) =>
            LET dates == SelectSeq(FiltersOf(i), IsDateFilter)
                d == YearMonthDay(ret[i].task.target_date.s)
            IN /\ Len(dates) = 2
               /\ \E k \in 1..2 : dates[k] =
                      [key |-> "start_date", value |-> d, operator |-> "LTE"]
               /\ \E k \in 1..2 : dates[k] =
                      [key |-> "end_date", value |-> d, operator |-> "GTE"]
               /\ ret[i].task.target_date.s = June15 => d = 20230615

C6_Witness ==
    \E i \in Slots :
        /\ Compiled(i)
        /\ ret[i].task.mode = "precision"
        /\ ret[i].task.target_date = Some(June15)
        /\ Len(FiltersOf(i)) >= 2

\* The task of the scenario: precision, version 4.3.1, Test Protocol, no date.
ScenarioTask(t) ==
    /\ t.mode = "precision"
    /\ t.target_date = None
    /\ t.target_version = Some(<<"4.3.1">>)
    /\ t.protocol_type = Some(<<"Test Protocol">>)

\* ---------------------------------------------------------------------------
\* C7: the compiled filters hold a version equality predicate iff the mode
\* is precision and target_version is present, a protocol_type equality
\* predicate iff protocol_type is present, and nothing but these and the date
\* pair; the scenario task compiles to {version == '4.3.1', protocol_type ==
\* 'Test Protocol'}; a task triggering no rule is searched unfiltered.
\* ---------------------------------------------------------------------------
C7_VersionProtocolExact ==
    \A i \in Slots :
        Compiled(i) =>
            LET t == ret[i].task
                F == FiltersOf(i)
                version == [key |-> "version", value |-> t.target_version.s,
                            operator |-> "EQ"]
                protocol == [key |-> "protocol_type", value |-> t.protocol_type.s,
                             operator |-> "EQ"]
                others == {k \in 1..Len(F) : ~IsDateFilter(F[k])}
            IN /\ (\E k \in others : F[k] = version)
                      <=> (t.mode = "precision" /\ Present(t.target_version))
               /\ (\E k \in others : F[k] = protocol) <=> Present(t.protocol_type)
               /\ \A k \in others : F[k] = version \/ F[k] = protocol
               /\ Len(F) = Cardinality(KeysOf(F))
               /\ ScenarioTask(t) => {F[k] : k \in 1..Len(F)} = {version, protocol}
               /\ Len(F) = 0 <=> ret[i].metadata_filters = None

C7_Witness ==
    \E i \in Slots :
        /\ Compiled(i)
        /\ ScenarioTask(ret[i].task)
        /\ Len(FiltersOf(i)) = 2

\* A step of the run compiles the filters of dispatch i.
CompilesFilters(i) == ret[i].pc = "queued" /\ ret'[i].pc = "retrieving"

AllEmpty(results) == \A k \in 1..Len(results) : results[k].nodes = <<>>

\* ---------------------------------------------------------------------------
\* C9: when every result of the aggregated context is without nodes, the
\* run ends with the 'could not find any relevant information' message and
\* the synthesizer collaborator is never called in the run.
\* ---------------------------------------------------------------------------
C9_AllEmptyShortCircuit ==
    \A k \in 1..Len(aceLog) :
        AllEmpty(aceLog[k].results) =>
            /\ synthCalls = <<>>
            /\ \A j \in 1..Len(stopLog) : stopLog[j] = NotFoundMsg
            /\ Len(stopLog) = Len(synthLog)
            /\ outcome.done => outcome.result = NotFoundMsg

C9_Witness ==
    /\ N >= 2
    /\ Len(synthLog) >= 1
    /\ AllEmpty(synthLog[1].results)
    /\ outcome.done
    /\ outcome.result = NotFoundMsg

\* The positions of the results that have nodes.
NonEmptyAt(results) == {k \in 1..Len(results) : results[k].nodes # <<>>}

\* The context holds a labeled block for each result with nodes, and no
\* other block.
BlocksMatch(context, results) ==
    /\ Len(context) = Cardinality(NonEmptyAt(results))
    /\ \A k \in NonEmptyAt(results) :
           \E b \in 1..Len(context) :
               /\ context[b].source = k
               /\ context[b].mode = results[k].task.mode
               /\ context[b].content = results[k].nodes

\* ---------------------------------------------------------------------------
\* C10: when at least one result has nodes, the synthesizer collaborator is
\* called exactly once in the run, with the original query and a context
\* that holds a labeled block for each result with nodes and none for a
\* result without.
\* ---------------------------------------------------------------------------
C10_SynthesizerCalledOnce ==
    \A k \in 1..Len(synthLog) :
        ~AllEmpty(synthLog[k].results) =>
            /\ Len(synthCalls) = 1
            /\ synthCalls[1].query = query
            /\ BlocksMatch(synthCalls[1].context, synthLog[k].results)

\* The retrieval of dispatch i raised.
Failed(i) == ret[i].pc = "failed"

\* The results of an AugmentedContextEvent are those of all N dispatches,
\* once each.
Complete(results) == Len(results) = N /\ SourcesOf(results) = Dispatches

\* ---------------------------------------------------------------------------
\* C11: a fault of the Retriever or Reranker call of one dispatch is surfaced
\* to the run: either the aggregator gets an empty result for the task, or
\* the run ends with an error (the exception is delivered, or is about to
\* be); the run is never left waiting for a count it cannot reach.
\* ---------------------------------------------------------------------------
C11_RetrievalFaultSurfaced ==
    \A i \in Slots :
        Failed(i) =>
            \/ agg[i].pc # "idle" /\ agg[i].ev.nodes = <<>>
            \/ IF outcome.done
               THEN outcome.kind = "error"
               ELSE raised # <<>> /\ (LoopFree => ENABLED RunFail)

C11_Witness ==
    /\ N >= 2
    /\ \E i \in Slots : Failed(i)
    /\ \E i \in Slots : Appended(i)
    /\ outcome.done
    /\ outcome.kind = "error"

\* ---------------------------------------------------------------------------
\* C12: when the timeout elapses before a terminal event the run ends with a
\* timeout failure, which is no answer and no error; every pending step
\* instance is abandoned; and no answer is ever built from fewer than
\* total_tasks results.
\* ---------------------------------------------------------------------------
C12_TimeoutFailure ==
    /\ [](outcome.kind = "timeout" => outcome.done /\ outcome.result = "")
    /\ [](outcome.kind = "answer" /\ N >= 1 =>
            /\ Len(synthLog) >= 1
            /\ \A k \in 1..Len(synthLog) : Complete(synthLog[k].results))
    /\ [][(~outcome.done /\ outcome'.done /\ stopLog = <<>>) =>
            outcome'.kind = "timeout"]_vars
    /\ [][outcome.done => UNCHANGED vars]_vars

\* The timeout elapsed with one result stored and another step instance
\* pending.
C12_Witness ==
    /\ outcome.kind = "timeout"
    /\ N >= 2
    /\ Len(store.results) = 1
    /\ \E i \in Slots : agg[i].pc \in {"get_results", "set_results"}
    /\ \E i \in Slots : ret[i].pc = "retrieving"

\* ---------------------------------------------------------------------------
\* C13: every run eventually ends, with exactly one outcome: an answer, an
\* error or a timeout; once it has ended its outcome does not change.
\* ---------------------------------------------------------------------------
C13_RunEndsOnce ==
    /\ <>outcome.done
    /\ [](outcome.done <=> outcome.kind \in {"answer", "error", "timeout"})
    /\ [][outcome.done => outcome' = outcome]_vars

\* A run in which an append was lost and the count cannot be reached ends
\* all the same.
C13_Witness ==
    /\ outcome.done
    /\ AllReturned
    /\ aceLog = <<>>

AllKeys == {"total_tasks", "results", "original_query"}

\* ---------------------------------------------------------------------------
\* C14: the planner writes total_tasks (= the size of the Plan), results
\* (= the empty list) and original_query before it sends the first
\* RetrievalTaskEvent, so every aggregator instance reads total_tasks = N
\* and an initialized accumulator.
\* ---------------------------------------------------------------------------
C14_StoreInitializedBeforeSend ==
    /\ plannerPc = "send" =>
           store = [keys |-> AllKeys, total_tasks |-> N, results |-> <<>>,
                    original_query |-> query]
    /\ \A i \in Slots :
           /\ ret[i].pc # "idle" =>
                  /\ store.keys = AllKeys
                  /\ store.total_tasks = N
                  /\ store.original_query = query
           /\ agg[i].pc \notin {"idle", "queued", "get_total_tasks"} =>
                  agg[i].total_tasks = N
           /\ agg[i].pc \notin {"idle", "queued", "get_total_tasks",
                                "get_original_query"} =>
                  agg[i].original_query = query

C14_Witness ==
    /\ N >= 2
    /\ \E i \in Slots : agg[i].pc = "written" /\ agg[i].total_tasks = N

\* ---------------------------------------------------------------------------
\* C15: for a Plan of N >= 1 tasks the planner emits one RetrievalTaskEvent
\* per task and no StopEvent, each task is handled by one retriever
\* instance, and an AugmentedContextEvent that is emitted holds exactly one
\* result for each task of the Plan, with the original query.
\* ---------------------------------------------------------------------------
C15_OneEventPerTask ==
    /\ plannerPc # "done" => \A i \in Slots : ret[i].pc = "idle"
    /\ (plannerPc = "done" /\ N >= 1) =>
           /\ \A i \in Slots :
                  IF i <= N
                  THEN ret[i].pc # "idle" /\ ret[i].task = plan[i]
                  ELSE ret[i].pc = "idle"
           /\ \A j \in 1..Len(stopLog) : stopLog[j] # NoKnowledgeMsg
    /\ \A i \in Slots :
           agg[i].pc # "idle" =>
               /\ i <= N
               /\ ret[i].pc = "done"
               /\ agg[i].ev.src = i
               /\ agg[i].ev.task = plan[i]
    /\ \A k \in 1..Len(aceLog) :
           /\ Complete(aceLog[k].results)
           /\ aceLog[k].original_query = query
           /\ \A j \in 1..Len(aceLog[k].results) :
                  aceLog[k].results[j] = agg[aceLog[k].results[j].src].ev

C15_Witness ==
    /\ N >= 2
    /\ plan[1] # plan[2]
    /\ Len(aceLog) >= 1
    /\ Complete(aceLog[1].results)

\* The events the synthesizer collaborator was called for, in the order of
\* the calls.
HasNodes(ev) == ~AllEmpty(ev.results)

CalledFor == SelectSeq(synthLog, HasNodes)

\* ---------------------------------------------------------------------------
\* C16 as claimed: the blocks of the context are in the order of the tasks
\* in the Plan, whatever order the retrievals completed in.
\* ---------------------------------------------------------------------------
C16_PlanOrder ==
    \A c \in 1..Len(synthCalls) :
        LET context == synthCalls[c].context
            results == CalledFor[c].results
        IN \A a, b \in 1..Len(context) :
               a < b => results[context[a].source].src
                            < results[context[b].source].src

\* ---------------------------------------------------------------------------
\* C16 as amended: the blocks of the context are in the order of the results
\* in the AugmentedContextEvent, which is the order in which the aggregator
\* instances appended them; each block is numbered by the position of its
\* result in that list.
\* ---------------------------------------------------------------------------
C16_AppendOrder ==
    \A c \in 1..Len(synthCalls) :
        LET context == synthCalls[c].context
            results == CalledFor[c].results
        IN /\ BlocksMatch(context, results)
           /\ \A a, b \in 1..Len(context) :
                  a < b => /\ context[a].source < context[b].source
                           /\ agg[results[context[a].source].src].order
                                  < agg[results[context[b].source].src].order
           /\ \A a, b \in 1..Len(results) :
                  a < b => agg[results[a].src].order < agg[results[b].src].order

\* Both results have nodes, and the second task of the Plan was appended
\* first.
C16_Witness ==
    /\ Len(synthCalls) >= 1
    /\ Len(synthCalls[1].context) = 2
    /\ CalledFor[1].results[1].src = 2
    /\ agg[2].order < agg[1].order

\* ---------------------------------------------------------------------------
\* C17: system_domain never influences the compiled filters: no filter is on
\* system_domain, and the task with any other system_domain compiles to the
\* filters that were compiled for it.
\* ---------------------------------------------------------------------------
C17_DomainNotFiltered ==
    \A i \in Slots :
        Compiled(i) =>
            /\ "system_domain" \notin KeysOf(FiltersOf(i))
            /\ \A d \in SystemDomains :
                   MetadataFilters(CompileFilters(
                       [ret[i].task EXCEPT !.system_domain = d]))
                       = ret[i].metadata_filters

C17_Witness ==
    \E i \in Slots :
        /\ Compiled(i)
        /\ Present(ret[i].task.system_domain)
        /\ Len(FiltersOf(i)) >= 1

\* ---------------------------------------------------------------------------
\* C18: in a dispatch the reranker is invoked iff the search returned nodes;
\* when it returned none, the dispatch returns a RetrievalResultEvent with
\* an empty node list for its task without a reranker call, and the
\* aggregator appends that event like any other.
\* ---------------------------------------------------------------------------
C18_RerankIffNodes ==
    /\ rerankCalls = Cardinality({i \in Slots : ret[i].reranked})
    /\ \A i \in Slots :
           /\ ret[i].reranked => ret[i].pc \in {"reranking", "done"}
           /\ ret[i].pc = "done" =>
                  /\ ret[i].reranked <=> ret[i].vector_nodes # <<>>
                  /\ agg[i].pc # "idle"
                  /\ ret[i].vector_nodes = <<>> =>
                         agg[i].ev = RetrievalResultEvent(<<>>, ret[i].task, i)
                  /\ agg[i].pc \in {"set_results", "written"} =>
                         \E k \in 1..Len(LocalResults(i)) :
                             LocalResults(i)[k] = agg[i].ev

C18_Witness ==
    /\ N >= 2
    /\ rerankCalls = 1
    /\ \E i \in Slots :
           /\ ret[i].pc = "done"
           /\ ret[i].vector_nodes = <<>>
           /\ ~ret[i].reranked
           /\ agg[i].pc = "written"
    /\ Len(store.results) = N

\* A call to the synthesizer collaborator raised: there are more calls than
\* answers.
SynthesizerFailed ==
    Len(synthCalls) > Cardinality({j \in 1..Len(stopLog) : stopLog[j] \in Answers})

\* The run ended with an error, or an exception is about to be delivered.
ErrorSurfaced == IF outcome.done THEN outcome.kind = "error" ELSE raised # <<>>

\* ---------------------------------------------------------------------------
\* C19: a failure of the planner collaborator becomes the run's error, with
\* no retry, no Plan, no RetrievalTaskEvent and no store write; a failure of
\* the synthesizer collaborator becomes the run's error; in neither case
\* does the run return an answer.
\* ---------------------------------------------------------------------------
C19_CollaboratorFaultPropagated ==
    /\ plannerPc = "failed" =>
           /\ plannerCalls = 1
           /\ plan = <<>>
           /\ store = EmptyStore
           /\ \A i \in Slots : ret[i].pc = "idle"
           /\ stopLog = <<>>
           /\ ErrorSurfaced
    /\ SynthesizerFailed =>
           /\ ErrorSurfaced
           /\ outcome.kind # "answer"

\* ---------------------------------------------------------------------------
\* C20: the planner collaborator is called exactly once per run, before any
\* retrieval dispatch, and never again.
\* ---------------------------------------------------------------------------
C20_PlannerCalledOnce ==
    /\ [](/\ plannerCalls <= 1
          /\ plannerPc # "start" <=> plannerCalls = 1
          /\ (\E i \in Slots : ret[i].pc # "idle") => plannerCalls = 1)
    /\ [][plannerCalls' # plannerCalls =>
            /\ plannerPc = "start"
            /\ \A i \in Slots : ret[i].pc = "idle"]_vars

C20_Witness ==
    /\ N >= 2
    /\ plannerCalls = 1
    /\ outcome.done
    /\ \E i \in Slots : Failed(i)

\* The events in `results` are RetrievalResultEvents of the first run.
OwnResults(results) ==
    \A k \in 1..Len(results) :
        /\ results[k].src \in Dispatches
        /\ results[k] = agg[results[k].src].ev

\* ---------------------------------------------------------------------------
\* C21: with two runs going on at once on one workflow object, the keys of
\* each run's store hold that run's values only, each run's
\* AugmentedContextEvent is made of its own results and query, and a step
\* of one run changes nothing of the other run.
\* ---------------------------------------------------------------------------
C21_RunsIsolated ==
    /\ [](/\ "total_tasks" \in store.keys => store.total_tasks = N
          /\ "original_query" \in store.keys => store.original_query = query
          /\ OwnResults(store.results)
          /\ \A i \in Slots :
                 /\ Arrived(i) /\ agg[i].pc # "get_total_tasks" =>
                        agg[i].total_tasks = N
                 /\ OwnResults(LocalResults(i))
          /\ \A k \in 1..Len(aceLog) :
                 /\ OwnResults(aceLog[k].results)
                 /\ aceLog[k].original_query = query)
    /\ [](/\ "total_tasks" \in other.store.keys =>
                 other.store.total_tasks = Len(OtherPlan)
          /\ "original_query" \in other.store.keys =>
                 other.store.original_query = OtherQuery
          /\ other.store.results \in {<<>>, <<OtherEvent>>}
          /\ other.pc = "done" =>
                 other.ace = AugmentedContextEvent(<<OtherEvent>>, OtherQuery))
    /\ [][other' # other => UNCHANGED runVars]_vars
    /\ [][store' # store => other' = other]_vars

\* Both runs are in the middle of their aggregation, the first with two
\* tasks.
C21_Witness ==
    /\ N >= 2
    /\ other.pc = "agg_set_results"
    /\ \E i \in Slots : agg[i].pc = "set_results"
    /\ Len(store.results) = 1
    /\ ~outcome.done

\* Dispatch i is inside its collaborator call: awaiting aretrieve, or in
\* reranker.postprocess_nodes.
Suspended(i) == ret[i].pc \in {"retrieving", "reranking"}

\* Whatever step instance of dispatch j is pending can be resumed now.
Schedulable(j) ==
    /\ ret[j].pc = "queued" => ENABLED RetrieverStart(j)
    /\ ret[j].pc = "retrieving" => ENABLED RetrieverFinish(j)
    /\ agg[j].pc = "queued" => ENABLED AggStart(j)
    /\ agg[j].pc = "get_total_tasks" => ENABLED AggGetTotalTasks(j)
    /\ agg[j].pc = "get_original_query" => ENABLED AggGetOriginalQuery(j)
    /\ agg[j].pc = "get_results" => ENABLED AggGetResultsAppend(j)
    /\ agg[j].pc = "set_results" => ENABLED AggSetResults(j)
    /\ agg[j].pc = "written" => ENABLED AggCompare(j)

\* ---------------------------------------------------------------------------
\* C22: while a dispatch of a running run is inside its Retriever or
\* Reranker call, every pending retriever or aggregator step instance of
\* every other dispatch can be resumed.
\* ---------------------------------------------------------------------------
C22_DispatchesIndependent ==
    \A i \in Slots :
        (~outcome.done /\ Suspended(i)) =>
            \A j \in Slots \ {i} : Schedulable(j)

\* ---------------------------------------------------------------------------
\* C23: once the planner has set the three keys, no step changes
\* 'total_tasks' or 'original_query' or the set of keys; the retriever and
\* the synthesizer write nothing; and a change of 'results' is the append
\* of the event of an arriving aggregator instance to what was stored.
\* ---------------------------------------------------------------------------
C23_StoreFrame ==
    [][store.keys = AllKeys =>
          /\ store'.keys = store.keys
          /\ store'.total_tasks = store.total_tasks
          /\ store'.original_query = store.original_query
          /\ store' # store => ret' = ret /\ synthLog' = synthLog
          /\ \/ store'.results = store.results
             \/ \E i \in Slots :
                    /\ agg[i].pc \in {"get_results", "set_results"}
                    /\ store'.results = Append(store.results, agg[i].ev)]_vars

\* Every dispatch of the Plan returned no nodes.
AllResultsEmpty == \A i \in Dispatches : agg[i].ev.nodes = <<>>

\* ---------------------------------------------------------------------------
\* C24: a run produces at most one StopEvent, and its result is fixed by
\* the case: the 'no knowledge' message iff the Plan is empty, the 'not
\* found' message iff the Plan is non-empty and every result is empty, the
\* Synthesizer's answer iff some result is non-empty.
\* ---------------------------------------------------------------------------
C24_AnswerByCase ==
    /\ Len(stopLog) <= 1
    /\ \A k \in 1..Len(stopLog) :
           /\ stopLog[k] = NoKnowledgeMsg <=> N = 0
           /\ stopLog[k] = NotFoundMsg <=> (N >= 1 /\ AllResultsEmpty)
           /\ stopLog[k] \in Answers <=> (N >= 1 /\ ~AllResultsEmpty)
    /\ outcome.kind = "answer" =>
           \E k \in 1..Len(stopLog) : outcome.result = stopLog[k]

====
